---- MODULE Spec2Model ----
(***************************************************************************)
(* Model of marked-responsive-images (src/src/index.js): the class         *)
(* MarkedResponsiveImages, its constructor and its image renderer.         *)
(*                                                                         *)
(* JavaScript strings are sequences of one-character strings, so that      *)
(* split, replace, startsWith, slice, the regular expression and the URL   *)
(* decomposition are computed character by character as the code does.     *)
(***************************************************************************)
EXTENDS Integers, Sequences, FiniteSets, TLC

(***************************************************************************)
(* Bounds of the model.                                                    *)
(***************************************************************************)
\* the largest number of size tokens in a generated filename
MaxTokens == 2

(***************************************************************************)
(* Characters.                                                             *)
(***************************************************************************)
DigitChars == <<"0", "1", "2", "3", "4", "5", "6", "7", "8", "9">>

Digit == {DigitChars[i] : i \in 1..10}

Letter == {"a", "b", "c", "d", "e", "f", "g", "h", "i", "j", "k", "l", "m",
           "n", "o", "p", "q", "r", "s", "t", "u", "v", "w", "x", "y", "z"}

(***************************************************************************)
(* String primitives of the JavaScript runtime used by index.js.           *)
(***************************************************************************)
\* String.prototype.startsWith
StartsWith(s, p) ==
    /\ Len(p) <= Len(s)
    /\ SubSeq(s, 1, Len(p)) = p

\* String.prototype.slice(n) with n >= 0
Slice(s, n) == SubSeq(s, n + 1, Len(s))

\* the positions at which pat occurs in s
Occurrences(s, pat) ==
    {i \in 1..(Len(s) - Len(pat) + 1) : SubSeq(s, i, i + Len(pat) - 1) = pat}

\* String.prototype.includes
Includes(s, pat) == Occurrences(s, pat) # {}

Min(S) == CHOOSE x \in S : \A y \in S : x <= y

Max(S) == CHOOSE x \in S : \A y \in S : x >= y

\* String.prototype.replace(pat, rep) with a string pattern: the FIRST
\* occurrence only (rep carries no '$' in the model's alphabet)
ReplaceFirst(s, pat, rep) ==
    IF ~Includes(s, pat) THEN s
    ELSE LET i == Min(Occurrences(s, pat))
         IN  SubSeq(s, 1, i - 1) \o rep \o SubSeq(s, i + Len(pat), Len(s))

\* String.prototype.split(c) for a one-character separator
RECURSIVE Split(_, _)
Split(s, c) ==
    LET hits == {i \in 1..Len(s) : s[i] = c}
    IN  IF hits = {} THEN <<s>>
        ELSE LET i == Min(hits)
             IN  <<SubSeq(s, 1, i - 1)>> \o Split(SubSeq(s, i + 1, Len(s)), c)

\* Array.prototype.join
RECURSIVE Join(_, _)
Join(parts, sep) ==
    IF parts = <<>> THEN <<>>
    ELSE IF Len(parts) = 1 THEN parts[1]
    ELSE parts[1] \o sep \o Join(Tail(parts), sep)

\* Array.prototype.pop() as used in `x.split('/').pop()`: the last element
Pop(parts) == parts[Len(parts)]

DigitValue(c) == CHOOSE v \in 0..9 : DigitChars[v + 1] = c

\* parseInt(s, 10): the decimal digits at the front of s; NaN is -1
RECURSIVE ParseDigits(_, _)
ParseDigits(s, acc) ==
    IF s = <<>> \/ Head(s) \notin Digit THEN acc
    ELSE ParseDigits(Tail(s), acc * 10 + DigitValue(Head(s)))

parseInt(s) ==
    IF s = <<>> \/ Head(s) \notin Digit THEN -1 ELSE ParseDigits(s, 0)

\* a number interpolated into a template literal
RECURSIVE NumberToString(_)
NumberToString(n) ==
    IF n < 0 THEN <<"N", "a", "N">>
    ELSE IF n < 10 THEN <<DigitChars[n + 1]>>
    ELSE NumberToString(n \div 10) \o <<DigitChars[(n % 10) + 1]>>

(***************************************************************************)
(* JavaScript values of the options object and of the token fields.        *)
(***************************************************************************)
Undefined == [t |-> "undefined"]

Null == [t |-> "null"]

Bool(b) == [t |-> "boolean", v |-> b]

Str(s) == [t |-> "string", v |-> s]

Truthy(x) ==
    CASE x.t = "undefined" -> FALSE
      [] x.t = "null"      -> FALSE
      [] x.t = "boolean"   -> x.v
      [] x.t = "string"    -> x.v # <<>>

\* a || b
Or(a, b) == IF Truthy(a) THEN a ELSE b

(***************************************************************************)
(* The platform's URL class, as far as index.js reads it: new URL(href)    *)
(* and new URL(href, 'http://u'), then .origin, .pathname, .search, .hash. *)
(* The decomposition follows the WHATWG URL parser for the hrefs of the    *)
(* model: the only scheme is http, ':' occurs only in a leading 'http:',   *)
(* a host is a run of letters, and no character needs percent-encoding.    *)
(***************************************************************************)
HttpScheme == <<"h", "t", "t", "p", ":">>

\* the part of s before the first c, and the part after it (<<>> if absent)
Before(s, c) ==
    LET hits == {i \in 1..Len(s) : s[i] = c}
    IN  IF hits = {} THEN s ELSE SubSeq(s, 1, Min(hits) - 1)

After(s, c) ==
    LET hits == {i \in 1..Len(s) : s[i] = c}
    IN  IF hits = {} THEN <<>> ELSE SubSeq(s, Min(hits) + 1, Len(s))

RECURSIVE SkipSlashes(_)
SkipSlashes(s) ==
    IF s # <<>> /\ Head(s) = "/" THEN SkipSlashes(Tail(s)) ELSE s

\* path state: '.' segments are dropped and '..' segments pop, a dot segment
\* in the last place leaves an empty segment
RECURSIVE PathSegments(_, _, _)
PathSegments(segs, i, acc) ==
    IF i > Len(segs) THEN acc
    ELSE LET seg  == segs[i]
             last == (i = Len(segs))
             next ==
                 IF seg = <<".", ".">>
                 THEN LET popped == IF acc = <<>> THEN acc
                                    ELSE SubSeq(acc, 1, Len(acc) - 1)
                      IN  IF last THEN Append(popped, <<>>) ELSE popped
                 ELSE IF seg = <<".">>
                 THEN IF last THEN Append(acc, <<>>) ELSE acc
                 ELSE Append(acc, seg)
         IN  PathSegments(segs, i + 1, next)

\* URL.pathname of a special-scheme URL whose path text (after the slash
\* that starts it) is p
Pathname(p) == <<"/">> \o Join(PathSegments(Split(p, "/"), 1, <<>>), <<"/">>)

UrlFailure == [ok |-> FALSE]

\* authority state, entered after the slashes that introduce the authority
UrlFromAuthority(s, query, fragment) ==
    LET rest == SkipSlashes(s)
        host == Before(rest, "/")
    IN  IF host = <<>> THEN UrlFailure
        ELSE [ok       |-> TRUE,
              origin   |-> HttpScheme \o <<"/", "/">> \o host,
              pathname |-> Pathname(After(rest, "/")),
              search   |-> IF query = <<>> THEN <<>> ELSE <<"?">> \o query,
              hash     |-> IF fragment = <<>> THEN <<>> ELSE <<"#">> \o fragment]

\* a path resolved against the base http://u, whose own path is "/"
UrlFromPath(p, query, fragment) ==
    [ok       |-> TRUE,
     origin   |-> HttpScheme \o <<"/", "/", "u">>,
     pathname |-> Pathname(IF p # <<>> /\ Head(p) = "/" THEN Tail(p) ELSE p),
     search   |-> IF query = <<>> THEN <<>> ELSE <<"?">> \o query,
     hash     |-> IF fragment = <<>> THEN <<>> ELSE <<"#">> \o fragment]

\* new URL(href) when withBase is FALSE, new URL(href, 'http://u') otherwise;
\* ok |-> FALSE stands for the TypeError the constructor throws
NewURL(href, withBase) ==
    LET fragment  == After(href, "#")
        noFrag    == Before(href, "#")
        query     == After(noFrag, "?")
        main      == Before(noFrag, "?")
        hasScheme == StartsWith(main, HttpScheme)
        rest      == IF hasScheme THEN Slice(main, Len(HttpScheme)) ELSE main
    IN  IF ~withBase
        THEN IF hasScheme THEN UrlFromAuthority(rest, query, fragment)
             ELSE UrlFailure
        ELSE IF StartsWith(rest, <<"/", "/">>)
             THEN UrlFromAuthority(rest, query, fragment)
             ELSE UrlFromPath(rest, query, fragment)

(***************************************************************************)
(* #parseUrl                                                               *)
(***************************************************************************)
parseUrl(href) ==
    LET abs == NewURL(href, FALSE)
        rel == NewURL(href, TRUE)
    IN  IF abs.ok
        THEN [parsed |-> TRUE, origin |-> abs.origin, pathname |-> abs.pathname,
              search |-> abs.search, hash |-> abs.hash, isAbsolute |-> TRUE]
        ELSE IF rel.ok
        THEN [parsed |-> TRUE, origin |-> <<>>, pathname |-> rel.pathname,
              search |-> rel.search, hash |-> rel.hash, isAbsolute |-> FALSE]
        ELSE [parsed |-> FALSE]

(***************************************************************************)
(* #regex: ^ base __ sizeList ext $, case-insensitive, where base is a      *)
(* greedy run of any characters, sizeList is one or more size tokens       *)
(* joined by '_', a size token is digits '-' digits with an optional       *)
(* '-' and alphanumeric word, and ext is '.' and one or more non-dots.     *)
(***************************************************************************)
AllIn(s, S) == \A i \in 1..Len(s) : s[i] \in S

\* \d+-\d+(?:-[a-z0-9]+)?
IsSizeToken(t) ==
    LET parts == Split(t, "-")
    IN  /\ Len(parts) \in {2, 3}
        /\ parts[1] # <<>> /\ AllIn(parts[1], Digit)
        /\ parts[2] # <<>> /\ AllIn(parts[2], Digit)
        /\ Len(parts) = 3 => (parts[3] # <<>> /\ AllIn(parts[3], Digit \cup Letter))

\* token(?:_token)*
IsSizeList(s) ==
    LET tokens == Split(s, "_")
    IN  \A i \in 1..Len(tokens) : IsSizeToken(tokens[i])

\* (\.[^.]+)$ can only start at the last '.', which must not end the name
ExtStart(filename) ==
    LET dots == {i \in 1..Len(filename) : filename[i] = "."}
    IN  IF dots = {} \/ Max(dots) = Len(filename) THEN 0 ELSE Max(dots)

\* the places of a pattern that asks for one '_' between base and size list
SeparatorPlacesSingle(filename) ==
    LET d == ExtStart(filename)
    IN  IF d = 0 THEN {}
        ELSE {i \in Occurrences(filename, <<"_">>) :
                 /\ i + 1 <= d - 1
                 /\ IsSizeList(SubSeq(filename, i + 1, d - 1))}

\* the places where the '__' of the pattern can stand so that the rest of
\* the pattern matches up to the end of the filename
SeparatorPlaces(filename) ==
    LET d == ExtStart(filename)
    IN  IF d = 0 THEN {}
        ELSE {i \in Occurrences(filename, <<"_", "_">>) :
                 /\ i + 2 <= d - 1
                 /\ IsSizeList(SubSeq(filename, i + 2, d - 1))}

\* filename.match(this.#regex): (.*) is greedy, so the rightmost place wins
regexMatch(filename) ==
    LET places == SeparatorPlaces(filename)
        i      == Max(places)
        d      == ExtStart(filename)
    IN  IF places = {} THEN [matched |-> FALSE]
        ELSE [matched           |-> TRUE,
              base              |-> SubSeq(filename, 1, i - 1),
              sizesPart         |-> SubSeq(filename, i + 2, d - 1),
              originalExtention |-> SubSeq(filename, d, Len(filename))]

(***************************************************************************)
(* #processVariants                                                        *)
(***************************************************************************)
\* a callback that keeps the size token as written, override word included
variantOfKeepsWord(token, originalExtention) ==
    LET parts == Split(token, "-")
    IN  [width  |-> parseInt(parts[1]),
         height |-> IF Len(parts) >= 2 THEN parseInt(parts[2]) ELSE -1,
         ext    |-> IF Len(parts) >= 3 /\ parts[3] # <<>>
                    THEN <<".">> \o parts[3]
                    ELSE originalExtention,
         token  |-> token]

\* the callback of .map(): one size token to one variant object
variantOf(token, originalExtention) ==
    LET parts  == Split(token, "-")
        width  == parseInt(parts[1])
        height == IF Len(parts) >= 2 THEN parseInt(parts[2]) ELSE -1
        ext    == IF Len(parts) >= 3 /\ parts[3] # <<>>
                  THEN <<".">> \o parts[3]
                  ELSE originalExtention
    IN  [width  |-> width,
         height |-> height,
         ext    |-> ext,
         token  |-> NumberToString(width) \o <<"-">> \o NumberToString(height)]

\* .sort((a, b) => a.width - b.width): Array.prototype.sort is stable, so a
\* variant goes behind every variant of at most its width that precedes it
RECURSIVE InsertByWidth(_, _)
InsertByWidth(sorted, v) ==
    IF sorted = <<>> THEN <<v>>
    ELSE IF Head(sorted).width - v.width <= 0
         THEN <<Head(sorted)>> \o InsertByWidth(Tail(sorted), v)
         ELSE <<v>> \o sorted

RECURSIVE SortByWidth(_, _)
SortByWidth(list, acc) ==
    IF list = <<>> THEN acc
    ELSE SortByWidth(Tail(list), InsertByWidth(acc, Head(list)))

\* #processVariants without its .sort()
processVariantsUnsorted(sizesPart, originalExtention) ==
    LET tokens == Split(sizesPart, "_")
    IN  [i \in 1..Len(tokens) |-> variantOf(tokens[i], originalExtention)]

processVariants(sizesPart, originalExtention) ==
    LET tokens == Split(sizesPart, "_")
        mapped == [i \in 1..Len(tokens) |-> variantOf(tokens[i], originalExtention)]
    IN  SortByWidth(mapped, <<>>)

(***************************************************************************)
(* #generateSrcset                                                         *)
(***************************************************************************)
\* `${base}__${variant.token}${variant.ext}`
variantFilename(base, variant) ==
    base \o <<"_", "_">> \o variant.token \o variant.ext

\* pathname.replace(filename, variantFilename)
variantPathname(variant, base, pathname) ==
    ReplaceFirst(pathname, Pop(Split(pathname, "/")), variantFilename(base, variant))

\* the URL of one variant
finalUrl(variant, base, pathname, isAbsolute, origin, search, hash, originalHref) ==
    LET vp == variantPathname(variant, base, pathname)
    IN  IF isAbsolute
        THEN origin \o vp \o search \o hash
        ELSE LET hadLeadingSlash == StartsWith(originalHref, <<"/">>)
                 cleanPath ==
                     IF StartsWith(vp, <<"/">>) /\ ~hadLeadingSlash
                     THEN Slice(vp, 1)
                     ELSE vp
             IN  cleanPath \o search \o hash

generateSrcset(variants, base, pathname, isAbsolute, origin, search, hash, originalHref) ==
    Join([i \in 1..Len(variants) |->
              finalUrl(variants[i], base, pathname, isAbsolute, origin, search,
                       hash, originalHref)
              \o <<" ">> \o NumberToString(variants[i].width) \o <<"w">>],
         <<",", " ">>)

(***************************************************************************)
(* #warn, #error: what the call writes to the console                      *)
(***************************************************************************)
warn(self, message) ==
    IF Truthy(self.debug) THEN <<[level |-> "warn", message |-> message]>> ELSE <<>>

error(self, message) ==
    IF Truthy(self.debug) THEN <<[level |-> "error", message |-> message]>> ELSE <<>>

(***************************************************************************)
(* constructor                                                             *)
(***************************************************************************)
constructor(options) ==
    [defaultSizes |-> Or(options.sizes, Null),
     debug        |-> Or(options.debug, Bool(FALSE)),
     lazy         |-> Or(options.lazy, Bool(TRUE))]

(***************************************************************************)
(* #render: the value returned to Marked and the console output.           *)
(* The markup is the sequence of the attributes of the <img> element.      *)
(***************************************************************************)
False == [returned |-> "false"]

Attr(name, value) == [name |-> name, value |-> value]

Markup(self, token, srcset, largest) ==
    <<Attr("class", <<"m", "d", "-", "i", "m", "g">>),
      Attr("src", token.href),
      Attr("srcset", srcset)>>
    \o (IF Truthy(self.defaultSizes)
        THEN <<Attr("sizes", self.defaultSizes.v)>> ELSE <<>>)
    \o <<Attr("width", NumberToString(largest.width)),
         Attr("height", NumberToString(largest.height)),
         Attr("alt", Or(token.text, Str(<<>>)).v)>>
    \o (IF Truthy(token.title) THEN <<Attr("title", token.title.v)>> ELSE <<>>)
    \o (IF Truthy(self.lazy)
        THEN <<Attr("loading", <<"l", "a", "z", "y">>)>> ELSE <<>>)

\* #render from the destructuring of parsedUrl on
renderParsed(self, token, parsedUrl) ==
    LET href     == token.href
        pathname == parsedUrl.pathname
        filename == Pop(Split(pathname, "/"))
        match    == regexMatch(filename)
    IN  IF ~match.matched
        THEN [value   |-> False,
              console |->
                  IF Includes(filename, <<"_", "_">>)
                  THEN warn(self, [text |-> "Filename contains '__' but does not match expected pattern",
                                   arg  |-> filename])
                  ELSE <<>>]
        ELSE
        LET variants == processVariants(match.sizesPart, match.originalExtention)
            srcset   == generateSrcset(variants, match.base, pathname,
                                       parsedUrl.isAbsolute, parsedUrl.origin,
                                       parsedUrl.search, parsedUrl.hash, href)
        IN  IF variants = <<>>
            THEN \* largest is undefined: the TypeError is caught
                 [value   |-> False,
                  console |-> error(self, [text |-> "Error generating HTML",
                                           arg  |-> filename])]
            ELSE [value   |-> [returned |-> "string",
                               html     |-> Markup(self, token, srcset,
                                                   variants[Len(variants)])],
                  console |-> <<>>]

\* a #render whose diagnostics decide what it returns: the unparseable
\* branch returns what #warn returns when debug is on
renderReturnsWarn(self, token) ==
    LET parsedUrl == parseUrl(token.href)
    IN  IF ~parsedUrl.parsed
        THEN [value   |-> IF Truthy(self.debug) THEN [returned |-> "undefined"] ELSE False,
              console |-> warn(self, [text |-> "Could not parse URL", arg |-> token.href])]
        ELSE renderParsed(self, token, parsedUrl)

render(self, token) ==
    LET parsedUrl == parseUrl(token.href)
    IN  IF ~parsedUrl.parsed
        THEN [value   |-> False,
              console |-> warn(self, [text |-> "Could not parse URL", arg |-> token.href])]
        ELSE renderParsed(self, token, parsedUrl)

(***************************************************************************)
(* The inputs: the options given to the constructor and the image tokens   *)
(* Marked hands to renderer.image.                                         *)
(***************************************************************************)
Options ==
    [sizes : {Undefined, Str(<<"5", "0", "v", "w">>)},
     debug : {Undefined, Bool(TRUE)},
     lazy  : {Undefined, Bool(TRUE), Bool(FALSE)}]

\* WIDTH-HEIGHT pairs as an author writes them in a filename, with the
\* numbers they stand for
Dims ==
    {[wtext |-> <<"4", "0", "0">>, htext |-> <<"3", "0", "0">>, w |-> 400, h |-> 300],
     [wtext |-> <<"8", "0", "0">>, htext |-> <<"6", "0", "0">>, w |-> 800, h |-> 600],
     [wtext |-> <<"1", "2", "0", "0">>, htext |-> <<"9", "0", "0">>, w |-> 1200, h |-> 900],
     [wtext |-> <<"0", "4", "0", "0">>, htext |-> <<"0", "2", "5", "0">>, w |-> 400, h |-> 250]}

Webp == <<"w", "e", "b", "p">>

\* the format-override word of a size token, <<>> for none
Overrides == {<<>>, Webp}

\* a size token: a pair of dimensions and an override word
SizeTokens == {[dim |-> d, word |-> w] : d \in Dims, w \in Overrides}

\* WIDTH-HEIGHT or WIDTH-HEIGHT-EXT
SizeTokenText(t) ==
    t.dim.wtext \o <<"-">> \o t.dim.htext
    \o (IF t.word = <<>> THEN <<>> ELSE <<"-">> \o t.word)

\* the sequences of 1..MaxTokens size tokens, in every order
TokenLists == UNION {[1..n -> SizeTokens] : n \in 1..MaxTokens}

Photo == <<"p", "h", "o", "t", "o">>

Jpg == <<".", "j", "p", "g">>

\* what an author encodes in a filename: base name, size tokens, extension
Convention(base, list, ext) == [base |-> base, list |-> list, ext |-> ext]

NoConvention == Convention(<<>>, <<>>, <<>>)

\* base "__" sizeList ext
ConventionName(c) ==
    c.base \o <<"_", "_">>
    \o Join([i \in 1..Len(c.list) |-> SizeTokenText(c.list[i])], <<"_">>)
    \o c.ext

\* every size list under one base and extension
ListConventions == {Convention(Photo, l, Jpg) : l \in TokenLists}

Small == [wtext |-> <<"4", "0", "0">>, htext |-> <<"3", "0", "0">>, w |-> 400, h |-> 300]

Large == [wtext |-> <<"8", "0", "0">>, htext |-> <<"6", "0", "0">>, w |-> 800, h |-> 600]

\* the size lists of the two examples of the README
ReadmeLists ==
    {<<[dim |-> Small, word |-> <<>>], [dim |-> Large, word |-> <<>>]>>,
     <<[dim |-> Large, word |-> Webp]>>}

\* base names and extensions with and without '__' of their own
Frames ==
    {<<Photo, Jpg>>,
     <<<<"a", "_", "_", "b">>, Jpg>>,
     <<Photo, <<".", "j", "_", "_", "p">>>>}

FrameConventions == {Convention(f[1], l, f[2]) : f \in Frames, l \in ReadmeLists}

\* filenames outside the convention: plain, one '_' where '__' belongs,
\* malformed after '__', no extension, and empty (a reference ending in '/')
OtherNames ==
    {<<"r", "e", "g", "u", "l", "a", "r", "-", "i", "m", "a", "g", "e", ".", "j", "p", "g">>,
     <<"p", "h", "o", "t", "o", "_", "4", "0", "0", "-", "3", "0", "0", ".", "j", "p", "g">>,
     <<"a", "_", "_", "b", ".", "j", "p", "g">>,
     <<"a", "_", "_", "4", "0", "0", "x", "3", "0", "0", ".", "j", "p", "g">>,
     <<"a", "_", "_", "4", "0", "0", "-", "3", "0", "0">>,
     <<>>}

Http == <<"h", "t", "t", "p", ":", "/", "/", "h", "/">>

\* how the reference starts: relative, root-relative, relative with a dot
\* segment and an empty segment, absolute, scheme-relative
Prefixes == {<<>>, <<"/">>, <<".", "/", "/">>, Http, <<"/", "/", "h", "/">>}

Img == <<"i", "m", "g", "/">>

\* the directories in front of the filename: none, one, one spelled like
\* the filename itself and one that holds the filename's text; in front of
\* an empty filename, a directory that is spelled like a convention name
Directories(filename) ==
    {<<>>, Img}
    \cup (IF filename = <<>>
          THEN {ConventionName(Convention(Photo, <<[dim |-> Small, word |-> <<>>]>>, Jpg))
                \o <<"/">>}
          ELSE {filename \o <<"/">>, <<"x">> \o filename \o <<"/">>})

QueryAndFragment == <<"?", "q", "#", "f">>

Suffixes == {<<>>, QueryAndFragment}

\* references the URL class rejects with and without a base
Unparseable == {<<"/", "/">>, <<"h", "t", "t", "p", ":", "/", "/">>}

\* every shape of reference around a filename
Shapes(filename) ==
    {p \o d \o filename \o s :
        p \in Prefixes, d \in Directories(filename), s \in Suffixes}

Image(href, convention) == [href |-> href, authored |-> convention]

\* the image references of the model with what their author encoded:
\* every shape around the README's size lists and around the filenames
\* outside the convention, every size list in a relative and in an
\* absolute reference, and the unparseable references
Images ==
    {Image(h, NoConvention) : h \in Unparseable}
    \cup UNION {{Image(h, NoConvention) : h \in Shapes(f)} : f \in OtherNames}
    \cup UNION {{Image(h, c) : h \in Shapes(ConventionName(c))} : c \in FrameConventions}
    \cup {Image(Img \o ConventionName(c), c) : c \in ListConventions}
    \cup {Image(Http \o Img \o ConventionName(c) \o QueryAndFragment, c) :
             c \in ListConventions}

\* title and alternative text of a token: absent, and present
Captions ==
    {<<Null, Str(<<>>)>>, <<Str(<<"T">>), Str(<<"A", "l", "t">>)>>}

\* {href, title, text}
Token(href, caption) == [href |-> href, title |-> caption[1], text |-> caption[2]]

(***************************************************************************)
(* The state: the options the extension was built from, its private        *)
(* fields, the image token Marked has parsed (with what the author of the  *)
(* reference encoded in its filename), and, once renderer.image has been   *)
(* called with it, what the call returned and wrote to the console.        *)
(***************************************************************************)
VARIABLES options, defaultSizes, debug, lazy, token, authored, called, result, console

vars == <<options, defaultSizes, debug, lazy, token, authored, called, result, console>>

\* `this` as the private methods read it
Self == [defaultSizes |-> defaultSizes, debug |-> debug, lazy |-> lazy]

\* responsiveImages(options): new MarkedResponsiveImages(options).config,
\* and an image token of the document
Init ==
    /\ \E image \in Images, caption \in Captions :
          /\ token = Token(image.href, caption)
          /\ authored = image.authored
    /\ options \in Options
    /\ defaultSizes = constructor(options).defaultSizes
    /\ debug = constructor(options).debug
    /\ lazy = constructor(options).lazy
    /\ called = FALSE
    /\ result = False
    /\ console = <<>>

\* renderer.image(token): (token) => this.#render(token)
Render ==
    /\ ~called
    /\ called' = TRUE
    /\ result' = render(Self, token).value
    /\ console' = render(Self, token).console
    /\ UNCHANGED <<options, defaultSizes, debug, lazy, token, authored>>

Next == Render

Spec == Init /\ [][Next]_vars

(***************************************************************************)
(* Reading the state: the attributes of the returned markup, the entries   *)
(* of its srcset, and the textual parts of the token's href.               *)
(***************************************************************************)
Matched == called /\ result.returned = "string"

HasAttr(name) == \E i \in 1..Len(result.html) : result.html[i].name = name

AttrValue(name) ==
    result.html[CHOOSE i \in 1..Len(result.html) : result.html[i].name = name].value

\* the entries "<url> <width>w" of a srcset value, joined by ", "
SrcsetEntries(srcset) ==
    LET parts == Split(srcset, ",")
    IN  [i \in 1..Len(parts) |->
            LET text == IF i > 1 THEN Tail(parts[i]) ELSE parts[i]
            IN  [url |-> Before(text, " "), descriptor |-> After(text, " ")]]

\* the srcset entries of the returned markup
Entries == SrcsetEntries(AttrValue("srcset"))

\* the href without query and fragment, and its final '/'-delimited segment
HrefPath(href) == Before(Before(href, "#"), "?")

HrefFilename(href) == Pop(Split(HrefPath(href), "/"))

AllButLast(seq) == SubSeq(seq, 1, Len(seq) - 1)

(***************************************************************************)
(* C1  The lazy-loading marker follows the configured flag.                *)
(***************************************************************************)
\* options.lazy enables lazy loading unless it is explicitly false
LazyConfigured == options.lazy # Bool(FALSE)

\* C1: for every matched image reference the markup carries loading="lazy"
\* if and only if the extension was built with lazy enabled (absent counts
\* as enabled); with lazy: false the markup has no loading attribute.
C1_LazyFollowsFlag ==
    Matched => (HasAttr("loading") <=> LazyConfigured)

(***************************************************************************)
(* C2  The README's basic example.                                         *)
(***************************************************************************)
ReadmeHref ==
    <<"i", "m", "g", "/", "p", "h", "o", "t", "o", "_", "_", "4", "0", "0", "-",
      "3", "0", "0", "_", "8", "0", "0", "-", "6", "0", "0", ".", "j", "p", "g">>

ReadmeSrcset ==
    <<"i", "m", "g", "/", "p", "h", "o", "t", "o", "_", "_", "4", "0", "0", "-",
      "3", "0", "0", ".", "j", "p", "g", " ", "4", "0", "0", "w", ",", " ">>
    \o ReadmeHref \o <<" ", "8", "0", "0", "w">>

\* C2: rendering img/photo__400-300_800-600.jpg gives a srcset that contains
\* "img/photo__400-300.jpg 400w, img/photo__400-300_800-600.jpg 800w", with
\* width="800", height="600" and src the href itself.
C2_ReadmeExample ==
    (called /\ token.href = ReadmeHref) =>
        /\ Matched
        /\ Includes(AttrValue("srcset"), ReadmeSrcset)
        /\ AttrValue("width") = <<"8", "0", "0">>
        /\ AttrValue("height") = <<"6", "0", "0">>
        /\ AttrValue("src") = ReadmeHref

(***************************************************************************)
(* C3  Relative references stay relative.                                  *)
(***************************************************************************)
\* C3: for every matched href that is not absolute and whose text does not
\* begin with '/', no variant URL of the srcset begins with '/', whatever
\* slashes the normalized pathname begins with.
C3_RelativeStaysRelative ==
    (/\ Matched
     /\ ~StartsWith(token.href, HttpScheme)
     /\ ~StartsWith(token.href, <<"/">>))
    => \A i \in 1..Len(Entries) : ~StartsWith(Entries[i].url, <<"/">>)

(***************************************************************************)
(* C4  Round trip of absolute URLs.                                        *)
(***************************************************************************)
QueryOf(url) == Before(After(url, "?"), "#")

FragmentOf(url) == After(url, "#")

\* C4: for every matched absolute href with a query string and a fragment,
\* every variant URL has the origin, the query string and the fragment of
\* the href and differs from it only in the final path segment.
C4_AbsoluteRoundTrip ==
    (/\ Matched
     /\ StartsWith(token.href, HttpScheme)
     /\ QueryOf(token.href) # <<>>
     /\ FragmentOf(token.href) # <<>>)
    => \A i \in 1..Len(Entries) :
          LET url == Entries[i].url
          IN  /\ QueryOf(url) = QueryOf(token.href)
              /\ FragmentOf(url) = FragmentOf(token.href)
              /\ AllButLast(Split(HrefPath(url), "/"))
                     = AllButLast(Split(HrefPath(token.href), "/"))

(***************************************************************************)
(* C9  Only the final path segment is replaced.                            *)
(***************************************************************************)
\* what #render decomposes the token's href into
TokenPathname == parseUrl(token.href).pathname

TokenMatch == regexMatch(Pop(Split(TokenPathname, "/")))

TokenVariants == processVariants(TokenMatch.sizesPart, TokenMatch.originalExtention)

\* C9: the pathname of every variant has the variant filename as its final
\* segment and every earlier segment as in the original pathname, also when
\* the filename's text occurs earlier in the path.
C9_OnlyFinalSegmentReplaced ==
    Matched =>
        \A i \in 1..Len(TokenVariants) :
            LET vp == variantPathname(TokenVariants[i], TokenMatch.base, TokenPathname)
            IN  /\ AllButLast(Split(vp, "/")) = AllButLast(Split(TokenPathname, "/"))
                /\ Pop(Split(vp, "/")) = variantFilename(TokenMatch.base, TokenVariants[i])

(***************************************************************************)
(* C10  The separator is the last '__' of the filename.                    *)
(***************************************************************************)
\* C10: for every filename render accepts, the base is everything before
\* the last occurrence of '__' in the filename, and no '__' occurs in the
\* size list and extension after it.
C10_SeparatorIsLastDoubleUnderscore ==
    Matched =>
        LET filename == Pop(Split(TokenPathname, "/"))
            last     == Max(Occurrences(filename, <<"_", "_">>))
        IN  /\ TokenMatch.base = SubSeq(filename, 1, last - 1)
            /\ ~Includes(TokenMatch.sizesPart \o TokenMatch.originalExtention,
                         <<"_", "_">>)

(***************************************************************************)
(* C5  Variants are sorted by width and the largest gives width/height.    *)
(***************************************************************************)
AuthoredWidths == {authored.list[k].dim.w : k \in 1..Len(authored.list)}

\* the width descriptors of srcset entries, as numbers
EntryWidths(entries) ==
    [i \in 1..Len(entries) |-> parseInt(Before(entries[i].descriptor, "w"))]

\* C5: whatever the order of the size tokens in a matching filename, the
\* srcset has one entry per size token, in ascending order of width, and the
\* width and height attributes are the dimensions of the last entry's
\* variant, whose width is the maximum of the widths in the filename.
C5_SortedLargestLast ==
    (Matched /\ authored.list # <<>>) =>
        LET widths == EntryWidths(Entries)
            n      == Len(widths)
            width  == parseInt(AttrValue("width"))
            height == parseInt(AttrValue("height"))
        IN  /\ n = Len(authored.list)
            /\ {widths[i] : i \in 1..n} = AuthoredWidths
            /\ \A i \in 1..(n - 1) : widths[i] <= widths[i + 1]
            /\ width = widths[n]
            /\ width = Max(AuthoredWidths)
            /\ \E k \in 1..Len(authored.list) :
                  /\ authored.list[k].dim.w = width
                  /\ authored.list[k].dim.h = height

\* a filename whose size tokens are written in descending order was rendered
C5_Witness ==
    /\ Matched
    /\ Len(authored.list) >= 2
    /\ authored.list[1].dim.w > authored.list[2].dim.w

(***************************************************************************)
(* C6  Format override.                                                    *)
(***************************************************************************)
\* base__W-H.E for a size token with override word E, base__W-H and the
\* file's real extension for one without; W and H are the numbers written
\* in decimal
ExpectedVariantName(c, t) ==
    c.base \o <<"_", "_">>
    \o NumberToString(t.dim.w) \o <<"-">> \o NumberToString(t.dim.h)
    \o (IF t.word # <<>> THEN <<".">> \o t.word ELSE c.ext)

NoSeparator(href) ==
    \/ ~Includes(HrefFilename(href), <<"_", "_">>)
    \/ /\ parseUrl(href).parsed
       /\ ~Includes(Pop(Split(parseUrl(href).pathname, "/")), <<"_", "_">>)

\* C7: for every reference whose final path segment holds no '__', parseable
\* or not, render returns false.
C7_NoSeparatorNoMatch ==
    (called /\ NoSeparator(token.href)) => result = False

\* a parseable reference to a file named with single underscores only was
\* rendered
C7_Witness ==
    /\ called
    /\ parseUrl(token.href).parsed
    /\ Includes(HrefFilename(token.href), <<"_">>)
    /\ ~Includes(HrefFilename(token.href), <<"_", "_">>)
    /\ result = False

(***************************************************************************)
(* C8  Diagnostics do not influence the result.                            *)
(***************************************************************************)
\* the instance with the debug flag the other way round
SelfOtherDebug == [Self EXCEPT !.debug = Bool(~Truthy(debug))]

\* C8: what render returned for the token is what it returns with the debug
\* flag the other way round, under every sizes and lazy configuration.
C8_DebugDoesNotChangeResult ==
    called => result = render(SelfOtherDebug, token).value

\* a call with debug on that logged a message, and that logs nothing with
\* debug off
C8_Witness ==
    /\ called
    /\ Truthy(debug)
    /\ console # <<>>
    /\ render(SelfOtherDebug, token).console = <<>>

====
